---- MODULE Spec2Model ----
(***************************************************************************)
(* Model of the DDNS client script src/src/utils/client-script.py:         *)
(* the HTTP request helper make_request, the two steps get_current_ip and  *)
(* update_dns, the cycle check_and_update_ip, the main loop and the signal *)
(* handler.  The server is the environment: it answers every request with *)
(* a redirect, a 2xx response, an error status or not at all.  urlopen is  *)
(* urllib.request.urlopen with the default opener, which the script does   *)
(* not replace: its HTTPRedirectHandler follows redirects itself and its   *)
(* HTTPErrorProcessor raises HTTPError for every other non-2xx status.     *)
(***************************************************************************)
EXTENDS Integers, Sequences, FiniteSets, TLC

(* ------------------------------------------------------------------ *)
(* Configuration (module-level constants of the script)               *)
(* ------------------------------------------------------------------ *)
TOKEN == "__TOKEN__"

SERVER_URL == "__SERVER_URL__"

UPDATE_INTERVAL == 300

DOMAIN_NAME == "__DOMAIN__"

\* default of make_request's max_redirects parameter
DefaultMaxRedirects == 5

(* ------------------------------------------------------------------ *)
(* Bounds of the model                                                *)
(* ------------------------------------------------------------------ *)
\* largest redirect cap a direct call of make_request is given (SpecReq)
MaxRedirectCap == 3

\* the count of started cycles saturates here
MaxCycles == 2

(* ------------------------------------------------------------------ *)
(* Python values                                                      *)
(* ------------------------------------------------------------------ *)
\* marks a key that a dict does not hold
Absent == "<absent>"

\* a decoded JSON value: a dict over the keys the script reads, or a list.
\* result is Absent, "null", "empty" ({}) or "dict"; status is the value of
\* result["status"] when result is a dict holding it.
EmptyDict ==
  [type |-> "dict", ip |-> Absent, success |-> Absent, result |-> Absent,
   status |-> Absent, data |-> Absent, error |-> Absent]

JsonList == [EmptyDict EXCEPT !.type = "list"]

\* {"data": text}
DataWrapper(text) == [EmptyDict EXCEPT !.data = text]

\* response bodies the server may send
BodyEmpty == ""

BodyBlank == "  "

BodyText == "pong"

BodyPadded == " pong "

BodyList == "[1]"

BodyEmptyObj == "{}"

BodyIpA == "{\"ip\": \"203.0.113.7\"}"

BodyIpB == "{\"ip\": \"198.51.100.9\"}"

BodyUnchanged == "{\"success\": true, \"result\": {\"status\": \"unchanged\"}}"

BodyUpdated == "{\"success\": true, \"result\": {\"status\": \"ok\"}}"

BodyNoResult == "{\"success\": true}"

BodyNullResult == "{\"success\": true, \"result\": null}"

BodyEmptyResult == "{\"success\": true, \"result\": {}}"

BodyNoStatus == "{\"success\": true, \"result\": {\"id\": 7}}"

BodyNotSuccess == "{\"success\": false}"

BodyDbDown == "{\"error\":\"db down\"}"

JsonTexts ==
  {BodyList, BodyEmptyObj, BodyIpA, BodyIpB, BodyUnchanged, BodyUpdated,
   BodyNoResult, BodyNullResult, BodyEmptyResult, BodyNoStatus,
   BodyNotSuccess, BodyDbDown}

Bodies == JsonTexts \cup {BodyEmpty, BodyBlank, BodyText, BodyPadded}

\* str.strip()
Strip(text) ==
  CASE text = BodyBlank -> ""
    [] text = BodyPadded -> BodyText
    [] OTHER -> text

\* json.loads succeeds
JsonValid(text) == text \in JsonTexts

\* json.loads
JsonLoads(text) ==
  CASE text = BodyList -> JsonList
    [] text = BodyEmptyObj -> EmptyDict
    [] text = BodyIpA -> [EmptyDict EXCEPT !.ip = "203.0.113.7"]
    [] text = BodyIpB -> [EmptyDict EXCEPT !.ip = "198.51.100.9"]
    [] text = BodyUnchanged ->
         [EmptyDict EXCEPT !.success = "true", !.result = "dict", !.status = "unchanged"]
    [] text = BodyUpdated ->
         [EmptyDict EXCEPT !.success = "true", !.result = "dict", !.status = "ok"]
    [] text = BodyNoResult -> [EmptyDict EXCEPT !.success = "true"]
    [] text = BodyNullResult -> [EmptyDict EXCEPT !.success = "true", !.result = "null"]
    [] text = BodyEmptyResult -> [EmptyDict EXCEPT !.success = "true", !.result = "empty"]
    [] text = BodyNoStatus -> [EmptyDict EXCEPT !.success = "true", !.result = "dict"]
    [] text = BodyNotSuccess -> [EmptyDict EXCEPT !.success = "false"]
    [] text = BodyDbDown -> [EmptyDict EXCEPT !.error = "db down"]

\* json.dumps({"ip": ip})
JsonDumps(ip) == "{\"ip\": \"" \o ip \o "\"}"


\* a decoder that wraps the stripped text
DecodeBodyStripped(response_data) ==
  IF Strip(response_data) # ""
  THEN IF JsonValid(response_data)
       THEN JsonLoads(response_data)
       ELSE DataWrapper(Strip(response_data))
  ELSE EmptyDict

\* lines 86-92 (and 100-106 for an error body): the body text as make_request
\* decodes it
DecodeBody(response_data) ==
  IF Strip(response_data) # ""
  THEN IF JsonValid(response_data)
       THEN JsonLoads(response_data)
       ELSE DataWrapper(response_data)
  ELSE EmptyDict

(* ------------------------------------------------------------------ *)
(* Requests, headers, bodies                                          *)
(* ------------------------------------------------------------------ *)
Header(name, value) == [name |-> name, value |-> value]

AuthHeader == Header("Authorization", "Bearer " \o TOKEN)

JsonHeader == Header("Content-Type", "application/json")

\* the headers argument: None, or a dict given as the set of its items
NoneHeaders == [isNone |-> TRUE, items |-> {}]

DictHeaders(items) == [isNone |-> FALSE, items |-> items]

HasHeader(items, name) == \E h \in items : h.name = name

\* the data argument: None, a dict {"ip": val} (the empty dict when val is
\* Absent), a str, or the bytes an earlier pass of the loop left in data
NoData == [kind |-> "none", val |-> ""]

DictData(ip) == [kind |-> "dict", val |-> ip]

StrData(text) == [kind |-> "str", val |-> text]

BytesData(text) == [kind |-> "bytes", val |-> text]

\* line 60: if data
Truthy(d) ==
  /\ d.kind # "none"
  /\ ~(d.kind = "dict" /\ d.val = Absent)
  /\ ~(d.kind \in {"str", "bytes"} /\ d.val = "")

\* lines 60-66: what data is after the pass
EncodeData(d) ==
  IF ~Truthy(d) THEN d
  ELSE IF d.kind = "dict" THEN BytesData(JsonDumps(d.val))
  ELSE IF d.kind = "str" THEN BytesData(d.val)
  ELSE d

\* lines 58-64: the headers of the Request object
RequestHeaders(hdrs, d) ==
  IF Truthy(d) /\ d.kind = "dict" /\ ~HasHeader(hdrs.items, "Content-Type")
  THEN hdrs.items \cup {JsonHeader}
  ELSE hdrs.items

\* no Location header
NoLocation == ""

\* lines 58-68: the request handed to urlopen, with what urlopen made of it
\* (outcome, and the Location of a redirect) still open
BuildRequest(u, m, hdrs, d) ==
  [url |-> u, method |-> m, headers |-> RequestHeaders(hdrs, d),
   body |-> IF Truthy(d) THEN EncodeData(d).val ELSE Absent,
   outcome |-> "pending", location |-> NoLocation]

IpUrl == SERVER_URL \o "/api/ip"

UpdateUrl == SERVER_URL \o "/api/dns/update"

\* the value of a Location header: a URL on another host, which may itself
\* answer with a redirect to that URL
Locations == {"https://mirror.example/r"}

\* what urlopen may return to line 71: a 2xx status and the Location header,
\* if any (a 201 may carry one)
ResponseHeads ==
  [status : {200, 201}, location : Locations \cup {NoLocation}]

\* redirect statuses the server may answer with, each with a Location header
RedirectCodes == {302, 307}

\* status codes urlopen may raise as HTTPError without a redirect being tried
ErrorCodes == {401, 500}

\* str() of the URLError urlopen may raise
TransportFailures ==
  {"<urlopen error [Errno 111] Connection refused>",
   "<urlopen error timed out>"}

\* urllib.request.HTTPRedirectHandler.max_repeats
MaxRepeats == 4

\* urllib.request.HTTPRedirectHandler.max_redirections
MaxRedirections == 10

\* HTTPRedirectHandler.redirect_request: the statuses it follows for a method
RedirectAllowed(code, m) ==
  \/ code \in {301, 302, 303, 307, 308} /\ m \in {"GET", "HEAD"}
  \/ code \in {301, 302, 303} /\ m = "POST"

\* HTTPRedirectHandler.http_error_302, loop detection: visited counts the
\* redirects to each URL during this urlopen call
RedirectRefused(visited, loc) ==
  \/ visited[loc] >= MaxRepeats
  \/ Cardinality({l \in Locations : visited[l] > 0}) >= MaxRedirections

\* HTTPRedirectHandler.redirect_request: the request urlopen issues for a
\* redirect of req: a GET without body, the content headers dropped
RedirectRequest(req, loc) ==
  [url |-> loc, method |-> "GET",
   headers |-> {h \in req.headers : h.name \notin {"Content-Type", "Content-Length"}},
   body |-> Absent, outcome |-> "pending", location |-> NoLocation]

\* no redirect seen yet in this urlopen call
NoneVisited == [l \in Locations |-> 0]

\* line 74
IsRedirect(head) ==
  300 <= head.status /\ head.status < 400 /\ head.location # NoLocation

\* line 75
RedirectLimitReached(count, max) == count >= max

(* ------------------------------------------------------------------ *)
(* Exceptions                                                         *)
(* ------------------------------------------------------------------ *)
\* an exception object: its identity, class, str(), whether it has a truthy
\* attribute `response`, and the identity of its __cause__ (0: none)
\* (status and data are the fields of that attribute when it is there)
NoErr ==
  [id |-> 0, cls |-> "none", msg |-> "", hasResponse |-> FALSE, status |-> 0,
   data |-> EmptyDict, cause |-> 0]

\* a freshly constructed exception: it has no attribute `response`
NewErr(id, cls, msg, cause) ==
  [id |-> id, cls |-> cls, msg |-> msg, hasResponse |-> FALSE, status |-> 0,
   data |-> EmptyDict, cause |-> cause]

\* the HTTPError e of line 94 and the response attribute line 110 gives it
NoHttpErr ==
  [id |-> 0, code |-> 0, hasResponse |-> FALSE, status |-> 0, data |-> EmptyDict]

\* except Exception: every class but the BaseException-only ones
IsException(cls) == cls \notin {"SystemExit", "KeyboardInterrupt"}

\* a log line
Log(level, text) == [level |-> level, text |-> text]

\* lines 28-36: the lines log_error prints for an error
log_error(context, error) ==
  <<Log("ERROR", context \o ": " \o error.msg)>>
  \o (IF error.hasResponse THEN <<Log("ERROR", "Server response")>> ELSE <<>>)


\* the update endpoint's view of the client: the body of the last update
\* request of the cycle before this one and of this cycle (Absent: none)
NoPush == [before |-> Absent, now |-> Absent]

\* lines 68-71: urlopen sends req; a POST with a body to the update endpoint
\* reaches the server's update handler
Push(p, req) ==
  IF req.url = UpdateUrl /\ req.method = "POST" /\ req.body # Absent
  THEN [p EXCEPT !.now = req.body]
  ELSE p

\* line 200: a new cycle begins; what this cycle pushed is now the past
NextCyclePushes(p) == [before |-> p.now, now |-> Absent]

(* ------------------------------------------------------------------ *)
(* State                                                              *)
(* ------------------------------------------------------------------ *)
VARIABLES
  pc,              \* where the process is
  caller,          \* who called make_request
  url, method, headers, data, max_redirects, redirect_count,
                   \* make_request's parameters and locals
  wire,            \* the requests this call of make_request put on the network
  visited,         \* urlopen's redirect_dict
  response_data,   \* the body text read last
  httpErr,         \* the HTTPError e of line 94
  error_response,  \* line 102-108
  ret,             \* the value make_request returned
  mrErr,           \* the exception that left make_request, if any
  err,             \* the exception propagating or raised last
  caught,          \* the exception the except clause of the step bound
  nextErrId,       \* identity of the next exception object
  current_ip,      \* line 165
  result,          \* line 166
  log,             \* the lines logged in this cycle
  outcome,         \* how check_and_update_ip ended: none, returned, raised
  cycle,           \* cycles started, saturating at MaxCycles
  sleeps,          \* time.sleep calls since the last cycle ended
  sleptFor,        \* argument of the last time.sleep
  signalled,       \* handle_signal has run
  exitCode,        \* -1 while running
  pushed           \* what the update endpoint was sent: in the cycle before, in this one

mrVars ==
  <<url, method, headers, data, max_redirects, redirect_count, wire, visited,
    response_data, httpErr, error_response>>

vars ==
  <<pc, caller, url, method, headers, data, max_redirects, redirect_count,
    wire, visited, response_data, httpErr, error_response, ret, mrErr, err, caught,
    nextErrId, current_ip, result, log, outcome, cycle, sleeps, sleptFor,
    signalled, exitCode, pushed>>

\* positions inside make_request
MrPcs == {"mr_loop", "mr_urlopen", "mr_read", "mr_err_read", "mr_err_raise"}

\* positions inside check_and_update_ip
CyclePcs ==
  MrPcs \cup {"gci", "gci_ret", "gci_except", "ud", "ud_ret", "ud_except",
              "cau_ok", "cau_except"}

\* where make_request's return value is used
ReturnTo(c) ==
  CASE c = "get_current_ip" -> "gci_ret"
    [] c = "update_dns" -> "ud_ret"
    [] OTHER -> "h_returned"

\* the except clause an exception leaving make_request reaches
ExceptTarget(c) ==
  CASE c = "get_current_ip" -> "gci_except"
    [] c = "update_dns" -> "ud_except"
    [] OTHER -> "h_raised"

\* the newest request of the call, with its outcome filled in
Resolve(w, how, loc) ==
  [w EXCEPT ![Len(w)].outcome = how, ![Len(w)].location = loc]

\* the state before anything has run
InitLocals ==
  /\ caller = "none"
  /\ url = "" /\ method = "GET" /\ headers = NoneHeaders /\ data = NoData
  /\ max_redirects = DefaultMaxRedirects /\ redirect_count = 0
  /\ wire = <<>> /\ visited = NoneVisited /\ response_data = "" /\ httpErr = NoHttpErr
  /\ error_response = EmptyDict /\ ret = EmptyDict
  /\ mrErr = NoErr /\ err = NoErr /\ caught = NoErr /\ nextErrId = 1
  /\ current_ip = Absent /\ result = EmptyDict /\ log = <<>>
  /\ outcome = "none" /\ cycle = 0 /\ sleeps = 0 /\ sleptFor = 0
  /\ signalled = FALSE /\ exitCode = -1
  /\ pushed = NoPush

\* lines 185-195: the process enters the main loop
Init == pc = "main" /\ InitLocals


(* ------------------------------------------------------------------ *)
(* make_request, lines 38-121                                         *)
(* ------------------------------------------------------------------ *)
\* a call: the parameters are bound and line 52 runs
Call(c, u, m, hdrs, d, cap) ==
  /\ caller' = c
  /\ url' = u /\ method' = m /\ headers' = hdrs /\ data' = d
  /\ max_redirects' = cap
  /\ redirect_count' = 0
  /\ wire' = <<>>
  /\ visited' = NoneVisited
  /\ mrErr' = NoErr
  /\ pc' = "mr_loop"

\* an exception leaves make_request for the caller's except clause
MrRaise(e) ==
  /\ err' = e
  /\ mrErr' = e
  /\ pc' = ExceptTarget(caller)

\* lines 54-71: one pass of the loop builds the request and hands it to urlopen
make_request_send ==
  /\ pc = "mr_loop"
  /\ headers' = IF headers.isNone THEN DictHeaders({}) ELSE headers
  /\ wire' = Append(wire, BuildRequest(url, method, headers', data))
  /\ pushed' = Push(pushed, BuildRequest(url, method, headers', data))
  /\ data' = EncodeData(data)
  /\ visited' = NoneVisited
  /\ pc' = "mr_urlopen"
  /\ UNCHANGED <<caller, url, method, max_redirects, redirect_count,
                 response_data, httpErr, error_response, ret, mrErr, err,
                 caught, nextErrId, current_ip, result, log, outcome, cycle,
                 sleeps, sleptFor, signalled, exitCode>>

\* line 76
TooManyRedirects(id) == NewErr(id, "Exception", "Too many redirects", 0)

\* lines 71-80: urlopen returns a response
urlopen_response ==
  /\ pc = "mr_urlopen"
  /\ \E head \in ResponseHeads :
       IF IsRedirect(head)
       THEN /\ wire' = Resolve(wire, "redirect", head.location)
            /\ IF RedirectLimitReached(redirect_count, max_redirects)
               THEN /\ MrRaise(TooManyRedirects(nextErrId))
                    /\ nextErrId' = nextErrId + 1
                    /\ UNCHANGED <<url, redirect_count>>
               ELSE /\ redirect_count' = redirect_count + 1
                    /\ url' = head.location
                    /\ pc' = "mr_loop"
                    /\ UNCHANGED <<err, mrErr, nextErrId>>
       ELSE /\ wire' = Resolve(wire, "response", NoLocation)
            /\ pc' = "mr_read"
            /\ UNCHANGED <<url, redirect_count, err, mrErr, nextErrId>>
  /\ UNCHANGED <<pushed, caller, visited, method, headers, data, max_redirects, response_data,
                 httpErr, error_response, ret, caught, current_ip, result, log,
                 outcome, cycle, sleeps, sleptFor, signalled, exitCode>>

\* lines 83-92: the body is read and decoded, and make_request returns
read_body ==
  /\ pc = "mr_read"
  /\ \E body \in Bodies :
       /\ response_data' = body
       /\ ret' = DecodeBody(body)
  /\ pc' = ReturnTo(caller)
  /\ UNCHANGED <<pushed, caller, visited, url, method, headers, data, max_redirects,
                 redirect_count, wire, httpErr, error_response, mrErr, err,
                 caught, nextErrId, current_ip, result, log, outcome, cycle,
                 sleeps, sleptFor, signalled, exitCode>>

\* line 83: read() or decode('utf-8') raises; neither except clause of
\* lines 94 and 118 matches, so the exception leaves make_request as it is
read_body_fails ==
  /\ pc = "mr_read"
  /\ \E cls \in {"IncompleteRead", "UnicodeDecodeError"} :
       MrRaise(NewErr(nextErrId, cls, cls, 0))
  /\ nextErrId' = nextErrId + 1
  /\ UNCHANGED <<pushed, caller, visited, url, method, headers, data, max_redirects,
                 redirect_count, wire, response_data, httpErr, error_response,
                 ret, caught, current_ip, result, log, outcome, cycle, sleeps,
                 sleptFor, signalled, exitCode>>

\* line 94: urlopen raised HTTPError with this status for the request in flight
HttpErrorRaised(code) ==
  /\ httpErr' = [NoHttpErr EXCEPT !.id = nextErrId, !.code = code]
  /\ nextErrId' = nextErrId + 1
  /\ wire' = Resolve(wire, "http_error", NoLocation)
  /\ pc' = "mr_err_read"

\* line 71, inside urlopen: the server answers the request in flight with a
\* redirect status and a Location.  HTTPRedirectHandler issues the request for
\* the new URL itself, or raises HTTPError where it does not follow
urlopen_redirect ==
  /\ pc = "mr_urlopen"
  /\ \E code \in RedirectCodes, loc \in Locations :
       LET req == wire[Len(wire)] IN
       IF RedirectAllowed(code, req.method) /\ ~RedirectRefused(visited, loc)
       THEN /\ wire' = Append(Resolve(wire, "redirect", loc), RedirectRequest(req, loc))
            /\ visited' = [visited EXCEPT ![loc] = @ + 1]
            /\ UNCHANGED <<pc, httpErr, nextErrId>>
       ELSE /\ HttpErrorRaised(code)
            /\ UNCHANGED visited
  /\ UNCHANGED <<pushed, caller, url, method, headers, data, max_redirects,
                 redirect_count, response_data, error_response, ret, mrErr,
                 err, caught, current_ip, result, log, outcome, cycle, sleeps,
                 sleptFor, signalled, exitCode>>

\* lines 94-96: urlopen raises HTTPError for an error status
urlopen_http_error ==
  /\ pc = "mr_urlopen"
  /\ \E code \in ErrorCodes : HttpErrorRaised(code)
  /\ UNCHANGED <<pushed, caller, visited, url, method, headers, data, max_redirects,
                 redirect_count, response_data, error_response, ret, mrErr,
                 err, caught, current_ip, result, log, outcome, cycle, sleeps,
                 sleptFor, signalled, exitCode>>

\* the read of an error body fails
ReadFailure == "<read failure>"

\* lines 98-108: the error body is read and decoded; any failure of the read
\* leaves the empty dict
read_error_body ==
  /\ pc = "mr_err_read"
  /\ \E body \in Bodies \cup {ReadFailure} :
       IF body = ReadFailure
       THEN /\ error_response' = EmptyDict
            /\ UNCHANGED response_data
       ELSE /\ response_data' = body
            /\ error_response' = DecodeBody(body)
  /\ pc' = "mr_err_raise"
  /\ UNCHANGED <<pushed, caller, visited, url, method, headers, data, max_redirects,
                 redirect_count, wire, httpErr, ret, mrErr, err, caught,
                 nextErrId, current_ip, result, log, outcome, cycle, sleeps,
                 sleptFor, signalled, exitCode>>

\* lines 96 and 116: the exception raised for an HTTP error status, from e
HttpStatusError(id, e) ==
  NewErr(id, "Exception", "Request failed with status " \o ToString(e.code), e.id)

\* lines 110-116: e.response is set on the HTTPError, and a new Exception is
\* raised from it
raise_http_error ==
  /\ pc = "mr_err_raise"
  /\ httpErr' = [httpErr EXCEPT !.hasResponse = TRUE, !.status = httpErr.code,
                                !.data = error_response]
  /\ MrRaise(HttpStatusError(nextErrId, httpErr'))
  /\ nextErrId' = nextErrId + 1
  /\ UNCHANGED <<pushed, caller, visited, url, method, headers, data, max_redirects,
                 redirect_count, wire, response_data, error_response, ret,
                 caught, current_ip, result, log, outcome, cycle, sleeps,
                 sleptFor, signalled, exitCode>>

\* line 119: the exception raised for a URLError whose str() is reason;
\* cause is the URLError
TransportError(id, reason, cause) ==
  NewErr(id, "Exception", "Request failed: " \o reason, cause)

\* a make_request that tries again after a URLError
AfterURLErrorRetry(c) == "mr_loop"

\* where make_request goes when urlopen raised URLError: line 119 raises to
\* the caller
AfterURLError(c) == ExceptTarget(c)

\* lines 118-119: urlopen raises URLError
urlopen_url_error ==
  /\ pc = "mr_urlopen"
  /\ wire' = Resolve(wire, "url_error", NoLocation)
  /\ \E reason \in TransportFailures :
       LET e == TransportError(nextErrId + 1, reason, nextErrId) IN
       /\ err' = e
       /\ mrErr' = e
  /\ pc' = AfterURLError(caller)
  /\ nextErrId' = nextErrId + 2
  /\ UNCHANGED <<pushed, caller, visited, url, method, headers, data, max_redirects,
                 redirect_count, response_data, httpErr, error_response, ret,
                 caught, current_ip, result, log, outcome, cycle, sleeps,
                 sleptFor, signalled, exitCode>>


(* ------------------------------------------------------------------ *)
(* get_current_ip, update_dns, check_and_update_ip: lines 123-173      *)
(* ------------------------------------------------------------------ *)
\* a narrower clause at line 171: except URLError
CycleCatchesURLErrorOnly(cls) == cls = "URLError"

\* line 171: the classes check_and_update_ip's except clause catches
CycleCatches(cls) == IsException(cls)

\* an exception leaves get_current_ip or update_dns: line 171 catches it, or
\* it leaves check_and_update_ip and asyncio.run
RaiseIntoCycle(e) ==
  /\ err' = e
  /\ IF CycleCatches(e.cls)
     THEN /\ pc' = "cau_except"
          /\ UNCHANGED <<outcome, sleeps>>
     ELSE /\ pc' = "main_after"
          /\ outcome' = "raised"
          /\ sleeps' = 0

\* lines 123-128: get_current_ip logs and calls make_request
get_current_ip ==
  /\ pc = "gci"
  /\ log' = Append(log, Log("INFO", "Detecting public IP address..."))
  /\ Call("get_current_ip", IpUrl, "GET", NoneHeaders, NoData, DefaultMaxRedirects)
  /\ UNCHANGED <<pushed, response_data, httpErr, error_response, ret, err, caught,
                 nextErrId, current_ip, result, outcome, cycle, sleeps,
                 sleptFor, signalled, exitCode>>

\* line 129: response['ip'] of a value without that key
MissingIp(id, response) ==
  IF response.type = "dict"
  THEN NewErr(id, "KeyError", "'ip'", 0)
  ELSE NewErr(id, "TypeError", "list indices must be integers or slices, not str", 0)

\* a cycle that skips the update when the detected ip is the one the cycle
\* before pushed
AfterDetectSkipsKnown(ip, last) ==
  IF JsonDumps(ip) = last THEN "cau_ok" ELSE "ud"

\* lines 165-166: get_current_ip returned ip; update_dns(ip) is called next,
\* whatever was pushed last
AfterDetect(ip, last) == "ud"

\* lines 129-130: the ip of the response is logged and returned to line 165
get_current_ip_return ==
  /\ pc = "gci_ret"
  /\ IF ret.type = "dict" /\ ret.ip # Absent
     THEN /\ log' = Append(log, Log("INFO", "Successfully detected IP: " \o ret.ip))
          /\ current_ip' = ret.ip
          /\ pc' = AfterDetect(ret.ip, pushed.before)
          /\ UNCHANGED <<err, nextErrId>>
     ELSE /\ err' = MissingIp(nextErrId, ret)
          /\ nextErrId' = nextErrId + 1
          /\ pc' = "gci_except"
          /\ UNCHANGED <<log, current_ip>>
  /\ UNCHANGED <<pushed, caller, mrVars, ret, mrErr, caught, result, outcome, cycle,
                 sleeps, sleptFor, signalled, exitCode>>

\* get_current_ip re-raising what it caught, as update_dns does
GciReraise(id, error) == error

\* line 133: what get_current_ip raises after catching error
GciRaise(id, error) == NewErr(id, "Exception", "Failed to detect IP address", 0)

\* lines 131-133: get_current_ip's except clause
get_current_ip_except ==
  /\ pc = "gci_except"
  /\ caught' = err
  /\ log' = log \o log_error("Failed to detect IP address", err)
  /\ RaiseIntoCycle(GciRaise(nextErrId, err))
  /\ nextErrId' = nextErrId + 1
  /\ UNCHANGED <<pushed, caller, mrVars, ret, mrErr, current_ip, result, cycle,
                 sleptFor, signalled, exitCode>>

\* an update_dns that sends a fixed address, whatever it was given
UpdateDataFixed(ip) == DictData("203.0.113.7")

\* line 147: the data argument of the update request
UpdateData(ip) == DictData(ip)

\* lines 135-148: update_dns logs and calls make_request
update_dns ==
  /\ pc = "ud"
  /\ log' = Append(log, Log("INFO", "Updating DNS record for " \o DOMAIN_NAME
                                      \o " to " \o current_ip \o "..."))
  /\ Call("update_dns", UpdateUrl, "POST", DictHeaders({AuthHeader, JsonHeader}),
          UpdateData(current_ip), DefaultMaxRedirects)
  /\ UNCHANGED <<pushed, response_data, httpErr, error_response, ret, err, caught,
                 nextErrId, current_ip, result, outcome, cycle, sleeps,
                 sleptFor, signalled, exitCode>>

\* an update_dns that logs an outcome only for a result that is a dict
UpdateOutcomeNeedsResult(response, ip) ==
  IF response.success = "true" /\ response.result = "dict"
  THEN IF response.status = "unchanged"
       THEN <<Log("INFO", "DNS record is already up-to-date (" \o ip \o ")")>>
       ELSE <<Log("INFO", "DNS record updated successfully to " \o ip)>>
  ELSE <<>>

\* lines 150-155: the lines update_dns logs for a dict response
UpdateOutcome(response, ip) ==
  IF response.success = "true"
  THEN IF response.result = "dict" /\ response.status = "unchanged"
       THEN <<Log("INFO", "DNS record is already up-to-date (" \o ip \o ")")>>
       ELSE <<Log("INFO", "DNS record updated successfully to " \o ip)>>
  ELSE <<>>

\* line 157: what update_dns returns for the response it got
UpdateReturn(response) == response

\* lines 150-157: update_dns inspects the response and returns it to line 166;
\* response.get of a list raises AttributeError into line 158
update_dns_return ==
  /\ pc = "ud_ret"
  /\ IF ret.type = "dict"
     THEN /\ log' = log \o UpdateOutcome(ret, current_ip)
          /\ result' = UpdateReturn(ret)
          /\ pc' = "cau_ok"
          /\ UNCHANGED <<err, nextErrId>>
     ELSE /\ err' = NewErr(nextErrId, "AttributeError",
                           "'list' object has no attribute 'get'", 0)
          /\ nextErrId' = nextErrId + 1
          /\ pc' = "ud_except"
          /\ UNCHANGED <<log, result>>
  /\ UNCHANGED <<pushed, caller, mrVars, ret, mrErr, caught, current_ip, outcome,
                 cycle, sleeps, sleptFor, signalled, exitCode>>

\* line 160: what update_dns raises after catching error
UdRaise(id, error) == error

\* lines 158-160: update_dns's except clause
update_dns_except ==
  /\ pc = "ud_except"
  /\ caught' = err
  /\ log' = log \o log_error("Failed to update DNS record", err)
  /\ RaiseIntoCycle(UdRaise(nextErrId, err))
  /\ nextErrId' = nextErrId + 1
  /\ UNCHANGED <<pushed, caller, mrVars, ret, mrErr, current_ip, result, cycle,
                 sleptFor, signalled, exitCode>>

\* UPDATE_INTERVAL/60 as the log lines print it (Python prints 5.0; the
\* model keeps the whole minutes)
IntervalMinutes == ToString(UPDATE_INTERVAL \div 60)

\* lines 168-170: both steps returned
check_and_update_ip_ok ==
  /\ pc = "cau_ok"
  /\ log' = Append(log, Log("INFO", "Next check scheduled"))
  /\ outcome' = "returned"
  /\ sleeps' = 0
  /\ pc' = "main_after"
  /\ UNCHANGED <<pushed, caller, mrVars, ret, mrErr, err, caught, nextErrId,
                 current_ip, result, cycle, sleptFor, signalled, exitCode>>

\* lines 171-173: a step raised; the cycle logs and returns normally
check_and_update_ip_except ==
  /\ pc = "cau_except"
  /\ log' = log \o <<Log("ERROR", "Update cycle failed: " \o err.msg),
                     Log("INFO", "Will retry in " \o IntervalMinutes \o " minutes")>>
  /\ outcome' = "returned"
  /\ sleeps' = 0
  /\ pc' = "main_after"
  /\ UNCHANGED <<pushed, caller, mrVars, ret, mrErr, err, caught, nextErrId,
                 current_ip, result, cycle, sleptFor, signalled, exitCode>>


(* ------------------------------------------------------------------ *)
(* The main loop and the signal handler: lines 175-207                *)
(* ------------------------------------------------------------------ *)
Min(a, b) == IF a < b THEN a ELSE b

\* lines 195-200: the loop starts a cycle; asyncio.run enters
\* check_and_update_ip, whose locals are fresh
main_loop ==
  /\ pc = "main"
  /\ cycle' = Min(cycle + 1, MaxCycles)
  /\ pc' = "gci"
  /\ caller' = "none"
  /\ url' = "" /\ method' = "GET" /\ headers' = NoneHeaders /\ data' = NoData
  /\ max_redirects' = DefaultMaxRedirects /\ redirect_count' = 0
  /\ wire' = <<>> /\ visited' = NoneVisited /\ response_data' = "" /\ httpErr' = NoHttpErr
  /\ error_response' = EmptyDict /\ ret' = EmptyDict
  /\ mrErr' = NoErr /\ err' = NoErr /\ caught' = NoErr /\ nextErrId' = 1
  /\ current_ip' = Absent /\ result' = EmptyDict /\ log' = <<>>
  /\ outcome' = "none"
  /\ pushed' = NextCyclePushes(pushed)
  /\ UNCHANGED <<sleeps, sleptFor, signalled, exitCode>>

\* a main loop that runs one cycle and falls out of the script
AfterCycleRunsOnce(how, cls) == "exit"

\* lines 196-205: what the loop does when asyncio.run has ended: line 201
\* after a return, the guard of lines 202-205 for an Exception, and the
\* process ends for anything else
AfterCycle(how, cls) ==
  IF how = "returned" THEN "sleep"
  ELSE IF IsException(cls) THEN "guard"
  ELSE "exit"

\* sleeping the number of minutes the log lines print
SleepMinutes == UPDATE_INTERVAL \div 60

\* lines 201 and 205: the argument of time.sleep
SleepSeconds == UPDATE_INTERVAL

\* lines 200-205: asyncio.run has ended
main_after ==
  /\ pc = "main_after"
  /\ LET route == AfterCycle(outcome, err.cls) IN
     CASE route = "sleep" ->
            /\ pc' = "sleep"
            /\ sleeps' = sleeps + 1
            /\ sleptFor' = SleepSeconds
            /\ UNCHANGED <<log, exitCode>>
       [] route = "guard" ->
            /\ log' = log \o log_error("Uncaught exception", err)
                 \o <<Log("ERROR", "An unexpected error occurred. Client will attempt to continue...")>>
            /\ pc' = "sleep"
            /\ sleeps' = sleeps + 1
            /\ sleptFor' = SleepSeconds
            /\ UNCHANGED exitCode
       [] OTHER ->
            /\ pc' = "exited"
            /\ exitCode' = 1
            /\ UNCHANGED <<log, sleeps, sleptFor>>
  /\ UNCHANGED <<pushed, caller, mrVars, ret, mrErr, err, caught, nextErrId,
                 current_ip, result, outcome, cycle, signalled>>

\* a loop that ends after its first sleep
AfterSleepStops == "exited"

\* lines 195, 201 and 205: after time.sleep the while True loop goes round
AfterSleep == "main"

\* lines 201 and 205: time.sleep returns and the loop goes round
sleep_done ==
  /\ pc = "sleep"
  /\ pc' = AfterSleep
  /\ UNCHANGED <<pushed, caller, mrVars, ret, mrErr, err, caught, nextErrId,
                 current_ip, result, log, outcome, cycle, sleeps, sleptFor,
                 signalled, exitCode>>

\* the SystemExit that sys.exit(0) raises at position p is caught only by the
\* bare except of line 107, which encloses lines 99-106
SwallowsSystemExit(p) == p = "mr_err_read"

\* lines 175-183: SIGINT or SIGTERM arrives; handle_signal logs and calls
\* sys.exit(0), which raises SystemExit where the process is
handle_signal ==
  /\ pc \notin {"exited", "h_returned", "h_raised"}
  /\ signalled' = TRUE
  /\ log' = log \o <<Log("INFO", "Received termination signal. Shutting down..."),
                     Log("INFO", "DDNS client stopped")>>
  /\ IF SwallowsSystemExit(pc)
     THEN /\ error_response' = EmptyDict
          /\ pc' = "mr_err_raise"
          /\ UNCHANGED exitCode
     ELSE /\ pc' = "exited"
          /\ exitCode' = 0
          /\ UNCHANGED error_response
  /\ UNCHANGED <<pushed, caller, visited, url, method, headers, data, max_redirects,
                 redirect_count, wire, response_data, httpErr, ret, mrErr, err,
                 caught, nextErrId, current_ip, result, outcome, cycle, sleeps,
                 sleptFor>>

(* ------------------------------------------------------------------ *)
(* Specifications                                                     *)
(* ------------------------------------------------------------------ *)
\* the steps of make_request
MrNext ==
  \/ make_request_send
  \/ urlopen_redirect
  \/ urlopen_response
  \/ read_body
  \/ read_body_fails
  \/ urlopen_http_error
  \/ read_error_body
  \/ raise_http_error
  \/ urlopen_url_error

Next ==
  \/ MrNext
  \/ main_loop
  \/ get_current_ip
  \/ get_current_ip_return
  \/ get_current_ip_except
  \/ update_dns
  \/ update_dns_return
  \/ update_dns_except
  \/ check_and_update_ip_ok
  \/ check_and_update_ip_except
  \/ main_after
  \/ sleep_done
  \/ handle_signal

\* the whole script
Spec == Init /\ [][Next]_vars

\* arguments a direct call of make_request is given
HeaderArgs ==
  {NoneHeaders, DictHeaders({}), DictHeaders({AuthHeader}),
   DictHeaders({AuthHeader, JsonHeader})}

DataArgs == {NoData, DictData(Absent), DictData("203.0.113.7"), StrData("ip=1")}

\* make_request called once with arguments drawn from the sets above
InitReq ==
  /\ pc = "mr_loop"
  /\ caller = "direct"
  /\ url \in {IpUrl, UpdateUrl}
  /\ method \in {"GET", "POST"}
  /\ headers \in HeaderArgs
  /\ data \in DataArgs
  /\ max_redirects \in 0..MaxRedirectCap
  /\ redirect_count = 0
  /\ wire = <<>> /\ visited = NoneVisited /\ response_data = "" /\ httpErr = NoHttpErr
  /\ error_response = EmptyDict /\ ret = EmptyDict
  /\ mrErr = NoErr /\ err = NoErr /\ caught = NoErr /\ nextErrId = 1
  /\ current_ip = Absent /\ result = EmptyDict /\ log = <<>>
  /\ outcome = "none" /\ cycle = 0 /\ sleeps = 0 /\ sleptFor = 0
  /\ signalled = FALSE /\ exitCode = -1
  /\ pushed = NoPush

\* the steps of the script itself: every step but the arrival of a signal
Steps ==
  \/ MrNext
  \/ main_loop
  \/ get_current_ip
  \/ get_current_ip_return
  \/ get_current_ip_except
  \/ update_dns
  \/ update_dns_return
  \/ update_dns_except
  \/ check_and_update_ip_ok
  \/ check_and_update_ip_except
  \/ main_after
  \/ sleep_done

\* the whole script where the interpreter keeps running it and every network
\* call and every sleep returns or raises; a signal may arrive or not
SpecLive == Init /\ [][Next]_vars /\ WF_vars(Steps)

NextReq == MrNext \/ handle_signal

SpecReq == InitReq /\ [][NextReq]_vars


(* ------------------------------------------------------------------ *)
(* Claims                                                             *)
(* ------------------------------------------------------------------ *)
\* the log line at distance k from the end of the log (0: the last)
FromEnd(k) == log[Len(log) - k]

RetryNotice == Log("INFO", "Will retry in " \o IntervalMinutes \o " minutes")

\* C1: check_and_update_ip never propagates a failure: asyncio.run never ends
\* by an exception, and whenever a step raised, the cycle has returned
\* normally with 'Update cycle failed: <message>' and the 'Will retry' notice
\* as its last two log lines.
C1_CycleAbsorbsFailure ==
  /\ outcome # "raised"
  /\ (pc = "main_after" /\ err # NoErr) =>
       /\ outcome = "returned"
       /\ Len(log) >= 2
       /\ FromEnd(1) = Log("ERROR", "Update cycle failed: " \o err.msg)
       /\ FromEnd(0) = RetryNotice

\* a cycle whose update request ended in HTTP 500 has returned normally
C1_Witness ==
  /\ pc = "main_after"
  /\ outcome = "returned"
  /\ caller = "update_dns"
  /\ err.msg = "Request failed with status 500"

\* C2: the process has exited only if handle_signal ran, and then with code 0.
C2_ExitOnlyOnSignal ==
  pc = "exited" => (signalled /\ exitCode = 0)

\* the second cycle failed on an undecodable body and the process sleeps on,
\* no signal received
C2_Witness ==
  /\ pc = "sleep"
  /\ cycle = 2
  /\ ~signalled
  /\ caught.cls = "UnicodeDecodeError"
  /\ exitCode = -1


\* C3: once handle_signal has run, the process has exited with code 0: it
\* issues no further request, starts no further cycle and does not keep
\* running, wherever the signal found it.
C3_SignalExitsAtOnce ==
  signalled => (pc = "exited" /\ exitCode = 0)

\* the responses of this call of make_request that were redirects
Redirects(w) == Cardinality({i \in 1..Len(w) : w[i].outcome = "redirect"})

\* C4: make_request puts at most max_redirects + 1 requests on the network;
\* it returns only if the chain held at most max_redirects redirects, and a
\* chain of more ends in the 'Too many redirects' error.
C4_RedirectCapEnforced ==
  /\ Len(wire) <= max_redirects + 1
  /\ pc = "h_returned" => Redirects(wire) <= max_redirects
  /\ Redirects(wire) > max_redirects =>
       (pc = "h_raised" /\ mrErr.msg = "Too many redirects")

\* make_request has raised for an HTTP error status
StatusErrorRaised ==
  /\ mrErr # NoErr
  /\ Len(wire) > 0
  /\ wire[Len(wire)].outcome = "http_error"

\* C5: the error make_request raises for an HTTP error status itself carries
\* the status code and the decoded error body.
C5_StatusErrorCarriesResponse ==
  StatusErrorRaised =>
    /\ mrErr.hasResponse
    /\ mrErr.status = httpErr.code
    /\ mrErr.data = error_response


\* the ERROR lines of the log
ErrorLines == {i \in 1..Len(log) : log[i].level = "ERROR"}

\* C6: when a failure reaches check_and_update_ip, a failure of
\* get_current_ip arrives as a new error 'Failed to detect IP address', whose
\* message is not the original one, and a failure of update_dns arrives as the
\* very error object that was raised (the one make_request raised, when it
\* raised); either way the original error has been logged with its context
\* exactly once.
C6_AsymmetricPropagation ==
  pc = "cau_except" =>
    /\ caught # NoErr
    /\ mrErr # NoErr => caught = mrErr
    /\ Cardinality(ErrorLines) = 1
    /\ caller = "get_current_ip" =>
         /\ err.cls = "Exception"
         /\ err.msg = "Failed to detect IP address"
         /\ err.id # caught.id
         /\ err.msg # caught.msg
         /\ FromEnd(0) = Log("ERROR", "Failed to detect IP address: " \o caught.msg)
    /\ caller = "update_dns" =>
         /\ err = caught
         /\ FromEnd(0) = Log("ERROR", "Failed to update DNS record: " \o caught.msg)

\* the transport failure of the update request has reached the cycle
C6_Witness ==
  /\ pc = "cau_except"
  /\ caller = "update_dns"
  /\ err.msg = "Request failed: <urlopen error timed out>"
  /\ err = mrErr

\* how often a line stands in the log
Count(line) == Cardinality({i \in 1..Len(log) : log[i] = line})

UpToDateLine == Log("INFO", "DNS record is already up-to-date (" \o current_ip \o ")")

UpdatedLine == Log("INFO", "DNS record updated successfully to " \o current_ip)

NonJson == Bodies \ JsonTexts

\* bodies without a character that is not whitespace
Blank == {BodyEmpty, BodyBlank}

\* C8 as stated: every non-empty body that is not valid JSON, whitespace-only
\* ones included, comes back as {"data": <text>}, and only the body of length
\* zero as the empty structure.
C8_Original ==
  pc = "h_returned" =>
    /\ (response_data \in NonJson /\ response_data # "") =>
         ret = DataWrapper(response_data)
    /\ (response_data \in NonJson /\ ret = EmptyDict) => response_data = ""

\* C8, amended: a body that is not valid JSON and holds a non-whitespace
\* character comes back as {"data": <text>} with the text verbatim; a body
\* that is empty or whitespace only comes back as the empty structure.
C8_WrapperUnlessBlank ==
  pc = "h_returned" =>
    /\ response_data \in NonJson \ Blank => ret = DataWrapper(response_data)
    /\ response_data \in Blank => ret = EmptyDict

\* a text with blanks around it came back verbatim
C8_Witness ==
  /\ pc = "h_returned"
  /\ response_data = BodyPadded
  /\ ret.data = " pong "

ClosingNotices == {Log("INFO", "Next check scheduled"), RetryNotice}

\* C9: every cycle but the first starts after exactly one time.sleep of
\* UPDATE_INTERVAL seconds since the cycle before it ended, whichever way that
\* cycle ended; no sleep happens inside a cycle, and a sleep begins only when
\* the cycle has ended, its closing notice logged.
C9_OneSleepBetweenCycles ==
  /\ pc \in CyclePcs => sleeps = (IF cycle = 1 THEN 0 ELSE 1)
  /\ (pc \in CyclePcs /\ cycle > 1) => sleptFor = UPDATE_INTERVAL
  /\ pc = "main_after" => (sleeps = 0 /\ outcome # "none")
  /\ pc = "sleep" =>
       /\ sleeps = 1
       /\ sleptFor = UPDATE_INTERVAL
       /\ outcome # "none"
       /\ FromEnd(0) \in ClosingNotices
  /\ (pc = "main" /\ cycle > 0) => (sleeps = 1 /\ sleptFor = UPDATE_INTERVAL)

\* the second cycle failed too, and exactly one sleep has followed it
C9_Witness ==
  /\ pc = "main"
  /\ cycle = 2
  /\ err.msg = "Failed to detect IP address"
  /\ sleeps = 1

Failed(how) == how \in {"http_error", "url_error"}

\* C10: a request that ended in a transport failure or an HTTP error status is
\* the last request of its call: make_request is then on its way to raise, or
\* has raised, an Exception to the caller; for a transport failure that
\* Exception's message describes the failure and it has no response body.
C10_NoRetry ==
  /\ \A i \in 1..(Len(wire) - 1) : ~Failed(wire[i].outcome)
  /\ (Len(wire) > 0 /\ Failed(wire[Len(wire)].outcome)) =>
       /\ pc \in {"mr_err_read", "mr_err_raise", "h_raised", "exited"}
       /\ pc = "h_raised" => mrErr.cls = "Exception"
       /\ (pc = "h_raised" /\ wire[Len(wire)].outcome = "url_error") =>
            /\ mrErr.msg \in {"Request failed: " \o r : r \in TransportFailures}
            /\ ~mrErr.hasResponse
            /\ mrErr.data = EmptyDict
       /\ (pc = "h_raised" /\ wire[Len(wire)].outcome = "http_error") =>
            mrErr.msg = "Request failed with status " \o ToString(httpErr.code)

\* a redirect was followed, the second request failed in transport, and
\* make_request raised with two requests made
C10_Witness ==
  /\ pc = "h_raised"
  /\ Len(wire) = 2
  /\ wire[2].outcome = "url_error"
  /\ mrErr.msg = "Request failed: <urlopen error timed out>"


\* the requests of the call in progress that went to the update endpoint
UpdateRequests == {i \in 1..Len(wire) : wire[i].url = UpdateUrl}

\* the cycle is past get_current_ip
Detected == pc \in {"ud", "ud_ret", "ud_except", "cau_ok"} \/ caller = "update_dns"

\* C11: within a cycle, a request goes to the update endpoint only when this
\* cycle's detection returned a dict with an ip, and its body is the JSON
\* encoding of exactly that ip; the update endpoint is sent something only by
\* update_dns, the ip detected in this cycle; and a cycle whose detection
\* failed (an error raised, or a response without ip) has sent the update
\* endpoint nothing.
C11_UpdateFollowsDetection ==
  /\ pc \in CyclePcs \cup {"main_after"} =>
       /\ caller # "update_dns" => (UpdateRequests = {} /\ pushed.now = Absent)
       /\ caller = "update_dns" =>
            /\ current_ip # Absent
            /\ \A i \in UpdateRequests : wire[i].body = JsonDumps(current_ip)
            /\ pushed.now \in {Absent, JsonDumps(current_ip)}
            /\ pc \in {"mr_loop", "mr_urlopen", "mr_read"} =>
                 (ret.type = "dict" /\ ret.ip = current_ip)
       /\ Detected <=> current_ip # Absent
       /\ (pc \in {"gci_except", "cau_except", "main_after"}
           /\ caller = "get_current_ip") =>
            (current_ip = Absent /\ pushed.now = Absent)

\* in the second cycle the detection returned another ip than the first cycle
\* pushed, and the update request in flight carries the new one
C11_Witness ==
  /\ pc = "mr_urlopen"
  /\ caller = "update_dns"
  /\ cycle = 2
  /\ Len(wire) = 1
  /\ current_ip = "198.51.100.9"
  /\ wire[1].body = JsonDumps("198.51.100.9")
  /\ pushed.before = JsonDumps("203.0.113.7")

\* the call was given a non-empty dict as data and headers without
\* Content-Type: line 64 has added the header to the first request, which the
\* headers argument does not hold
DictBodyNoContentType ==
  /\ Len(wire) >= 1
  /\ ~HasHeader(headers.items, "Content-Type")
  /\ JsonHeader \in wire[1].headers
  /\ wire[1].body # Absent

\* C12: for a call given a dict body and headers without Content-Type, every
\* request the call puts on the network, the first and each one issued after a
\* redirect, carries the JSON-encoded body and Content-Type: application/json.
C12_JsonBodyOnEveryRequest ==
  DictBodyNoContentType =>
    \A i \in 1..Len(wire) :
      /\ wire[i].body = wire[1].body
      /\ JsonHeader \in wire[i].headers

\* make_request has ended, by a return or by an error
Terminated == pc \in {"h_returned", "h_raised"}

\* C13: the redirect counter never exceeds max_redirects, and a call of
\* make_request that has ended, whichever way, has put at most
\* max_redirects + 1 requests on the network, however many of the answers were
\* redirects with a Location (back to the same URL included).
C13_BoundedRequests ==
  /\ redirect_count <= max_redirects
  /\ Terminated => Len(wire) <= max_redirects + 1

\* the first request of a cycle's IP detection is on the network
FreshDetection ==
  /\ pc = "mr_urlopen"
  /\ caller = "get_current_ip"
  /\ Len(wire) = 1
  /\ wire[1].url = IpUrl

\* asyncio.run has ended: a cycle is over, whatever its outcome
CycleOver == pc = "main_after"

\* C14: unless a termination signal arrives, detection requests are issued
\* again and again, and every cycle that has ended, whatever its outcome, is
\* followed by a fresh IP-detection request.
C14_CyclesForever ==
  /\ []<>(signalled \/ FreshDetection)
  /\ CycleOver ~> (signalled \/ FreshDetection)

\* the second cycle's detection request is on the network after a first
\* cycle that pushed an ip, no signal received
C14_Witness ==
  /\ FreshDetection
  /\ cycle = 2
  /\ sleeps = 1
  /\ pushed.before # Absent
  /\ ~signalled

NextCheckNotice == Log("INFO", "Next check scheduled")

\* C15: a cycle that has ended has logged exactly one closing notice as its
\* last line, 'Next check scheduled' or 'Will retry' right after 'Update cycle
\* failed'; and it ended with 'Next check scheduled' only if update_dns logged
\* one of the two DNS outcome lines in it.
C15_ScheduledOnlyAfterOutcome ==
  (pc = "main_after" /\ ~signalled) =>
    /\ Count(NextCheckNotice) + Count(RetryNotice) = 1
    /\ FromEnd(0) \in ClosingNotices
    /\ FromEnd(0) = RetryNotice =>
         FromEnd(1) = Log("ERROR", "Update cycle failed: " \o err.msg)
    /\ FromEnd(0) = NextCheckNotice =>
         Count(UpToDateLine) + Count(UpdatedLine) = 1

\* the request carries Authorization: Bearer <TOKEN>
CarriesToken(req) == AuthHeader \in req.headers

\* C16: every request on the network that carries the Authorization: Bearer
\* header goes to SERVER_URL/api/dns/update: none of get_current_ip's requests
\* carries it, and no request to a URL taken from a Location header does.
C16_TokenOnlyToUpdateEndpoint ==
  \A i \in 1..Len(wire) :
    CarriesToken(wire[i]) =>
      /\ wire[i].url = UpdateUrl
      /\ wire[i].url \notin Locations
      /\ caller = "update_dns"

\* the addresses the detection responses of the model name
Ips == {"203.0.113.7", "198.51.100.9"}

\* the line update_dns logs first when called with ip
UpdatingLine(ip) ==
  Log("INFO", "Updating DNS record for " \o DOMAIN_NAME \o " to " \o ip \o "...")

\* the calls of update_dns in this cycle, by the line each logs first
UpdateCalls == {i \in 1..Len(log) : \E ip \in Ips : log[i] = UpdatingLine(ip)}

\* every variable of the script has the value it had when the first cycle
\* began
FreshCycle ==
  /\ caller = "none" /\ url = "" /\ method = "GET"
  /\ headers = NoneHeaders /\ data = NoData
  /\ max_redirects = DefaultMaxRedirects /\ redirect_count = 0
  /\ wire = <<>> /\ visited = NoneVisited
  /\ response_data = "" /\ httpErr = NoHttpErr /\ error_response = EmptyDict
  /\ ret = EmptyDict /\ mrErr = NoErr /\ err = NoErr /\ caught = NoErr
  /\ current_ip = Absent /\ result = EmptyDict /\ log = <<>>

\* C17: a cycle begins with nothing of the cycles before it, whatever they
\* pushed and however they ended; once its detection has returned an ip and
\* the cycle has moved on, update_dns has been called exactly once, with that
\* ip, and its request has put that ip before the update endpoint, also when
\* the cycle before pushed the same ip; without a detected ip update_dns has
\* not been called.
C17_StatelessCycle ==
  /\ pc = "gci" => FreshCycle
  /\ pc \in CyclePcs \cup {"main_after"} =>
       /\ current_ip = Absent => UpdateCalls = {}
       /\ (current_ip # Absent /\ pc # "ud") =>
            /\ Cardinality(UpdateCalls) = 1
            /\ Count(UpdatingLine(current_ip)) = 1
            /\ caller = "update_dns"
            /\ Len(wire) >= 1 => pushed.now = JsonDumps(current_ip)
       /\ (pc = "main_after" /\ current_ip # Absent) =>
            pushed.now = JsonDumps(current_ip)

\* the second cycle detected the ip the first cycle had pushed, called
\* update_dns with it all the same, and has ended
C17_Witness ==
  /\ pc = "main_after"
  /\ cycle = 2
  /\ current_ip = "203.0.113.7"
  /\ pushed.before = JsonDumps("203.0.113.7")
  /\ pushed.now = JsonDumps("203.0.113.7")
  /\ Count(UpdatingLine("203.0.113.7")) = 1

====
